---- MODULE Spec2Model ----
(***************************************************************************)
(* A model of the StudyTracker class of script.js: the session collection  *)
(* (studyLogs), the filtered view (filteredLogs), the filter controls, the *)
(* clear-all confirmation, the localStorage slot 'studyTrackerData', and   *)
(* the data that updateSummary and the charts compute from the collection. *)
(*                                                                         *)
(* Text is a tuple of one-character strings, so that trim, parseInt,       *)
(* toString, toLowerCase and includes are computed character by character. *)
(* A JavaScript value whose type matters is a record with a tag: a number  *)
(* is [type |-> "number", val |-> n], NaN and null have their own tags.    *)
(***************************************************************************)
EXTENDS Integers, Sequences, FiniteSets, TLC

(***************************************************************************)
(* Bounds of the model.                                                    *)
(***************************************************************************)
\* the longest collection an accepted add may produce, under Spec
MaxLogs == 2
\* the longest collection an accepted add may produce, under SpecReliable
MaxLogsReliable == 3
\* the clock (milliseconds, Date.now()) runs from 1 to MaxClock
MaxClock == 2
\* how many localStorage.setItem calls may throw in one behaviour of Spec
MaxWriteFailures == 2
\* the local calendar day of a clock reading runs from day 7 to day MaxDay
MaxDay == 14
\* formatDuration is checked for every number of minutes from 0 to MaxMinutes
MaxMinutes == 130

VARIABLES
    pc,             \* "boot": page not yet constructed; "ready"; "crashed": the constructor threw
    studyLogs,      \* this.studyLogs, a JavaScript value
    filteredLogs,   \* this.filteredLogs, a JavaScript value
    currentAction,  \* this.currentAction
    filterSubject,  \* value of the #filterSubject select
    filterDate,     \* value of the #filterDate input
    modalShown,     \* #confirmModal has class 'show'
    notification,   \* the message of the last showNotification call
    storage,        \* the localStorage slot 'studyTrackerData'
    setItemResult,  \* what the page's most recent localStorage.setItem call did: "none", "ok", "threw"
    uncaught,       \* the error that escaped the last event's handler, "none" if none
    now,            \* the last reading of the clock (Date.now(), in milliseconds)
    failuresLeft,   \* how many more setItem calls may throw
    lastRemoved     \* how many sessions deleteLog removed, if it showed the last notification; else 0

vars == <<pc, studyLogs, filteredLogs, currentAction, filterSubject, filterDate,
          modalShown, notification, storage, setItemResult, uncaught, now, failuresLeft,
          lastRemoved>>

(***************************************************************************)
(* Text.                                                                   *)
(***************************************************************************)
WhiteSpace == {" ", "\t", "\n"}

Digits == {"0", "1", "2", "3", "4", "5", "6", "7", "8", "9"}

DigitValue ==
    "0" :> 0 @@ "1" :> 1 @@ "2" :> 2 @@ "3" :> 3 @@ "4" :> 4 @@
    "5" :> 5 @@ "6" :> 6 @@ "7" :> 7 @@ "8" :> 8 @@ "9" :> 9

DigitChar == <<"0", "1", "2", "3", "4", "5", "6", "7", "8", "9">>

RECURSIVE TrimStart(_)
TrimStart(s) ==
    IF s # <<>> /\ Head(s) \in WhiteSpace THEN TrimStart(Tail(s)) ELSE s

RECURSIVE TrimEnd(_)
TrimEnd(s) ==
    IF s # <<>> /\ s[Len(s)] \in WhiteSpace THEN TrimEnd(SubSeq(s, 1, Len(s) - 1)) ELSE s

\* String.prototype.trim
Trim(s) == TrimEnd(TrimStart(s))

\* a JavaScript number, NaN, null
Number(n) == [type |-> "number", val |-> n]
NaN == [type |-> "NaN", val |-> 0]
JsNull == [type |-> "null", val |-> 0]

\* the value of the longest prefix of decimal digits of s, after the digits read so far
RECURSIVE DigitsValue(_, _)
DigitsValue(s, acc) ==
    IF s # <<>> /\ Head(s) \in Digits
    THEN DigitsValue(Tail(s), 10 * acc + DigitValue[Head(s)])
    ELSE acc

\* parseInt(text): leading white space is skipped, a sign is read, then the longest
\* prefix of decimal digits; NaN when there is no digit
ParseInt(text) ==
    LET s == TrimStart(text)
        negative == s # <<>> /\ Head(s) = "-"
        signed == s # <<>> /\ Head(s) \in {"-", "+"}
        body == IF signed THEN Tail(s) ELSE s
    IN  IF body = <<>> \/ Head(body) \notin Digits
        THEN NaN
        ELSE Number(IF negative THEN 0 - DigitsValue(body, 0) ELSE DigitsValue(body, 0))

\* Number.prototype.toString of a non-negative integer
RECURSIVE NumberToString(_)
NumberToString(n) ==
    IF n < 10 THEN <<DigitChar[n + 1]>>
    ELSE NumberToString(n \div 10) \o <<DigitChar[(n % 10) + 1]>>

\* Date.prototype.toISOString of the instant t: a text that t determines
ToISOString(t) == <<"T">> \o NumberToString(t) \o <<"Z">>

(***************************************************************************)
(* JavaScript values held by studyLogs and filteredLogs.                   *)
(***************************************************************************)
JsArray(items) == [js |-> "array", v |-> items]
JsNullValue == [js |-> "null", v |-> <<>>]
JsNumberValue == [js |-> "number", v |-> <<>>]
JsObjectValue == [js |-> "object", v |-> <<>>]
JsUndefined == [js |-> "undefined", v |-> <<>>]

\* ToBoolean of a text
IsFalsyText(s) == s = <<>>

(***************************************************************************)
(* The localStorage slot: absent, or a text. A text is the empty text, a   *)
(* text that is not JSON, or a JSON document.                              *)
(***************************************************************************)
Absent == [kind |-> "absent", doc |-> [j |-> "none", items |-> <<>>]]
EmptyText == [kind |-> "empty", doc |-> [j |-> "none", items |-> <<>>]]
GarbageText == [kind |-> "garbage", doc |-> [j |-> "none", items |-> <<>>]]
JsonText(doc) == [kind |-> "json", doc |-> doc]

JsonNull == [j |-> "null", items |-> <<>>]
JsonNumber == [j |-> "number", items |-> <<>>]
JsonObject == [j |-> "object", items |-> <<>>]
JsonArray(items) == [j |-> "array", items |-> items]

\* JSON.stringify of one value of a session's duration property: NaN is written as null
StringifyNumber(d) == IF d.type = "number" THEN d ELSE JsNull

\* JSON.stringify of a session: its own properties, in creation order
StringifySession(s) == [s EXCEPT !.duration = StringifyNumber(s.duration)]

\* JSON.stringify(this.studyLogs)
Stringify(logs) ==
    JsonText(JsonArray([i \in 1..Len(logs.v) |-> StringifySession(logs.v[i])]))

\* JSON.parse of a JSON document
Parse(doc) ==
    CASE doc.j = "null" -> JsNullValue
      [] doc.j = "number" -> JsNumberValue
      [] doc.j = "object" -> JsObjectValue
      [] OTHER -> JsArray(doc.items)

(***************************************************************************)
(* Form inputs: what the user typed in #studyForm when it is submitted.    *)
(***************************************************************************)
DateA == "2024-01-06"
DateB == "2024-01-07"

Field(subject, duration, timeUnit, date) ==
    [subject |-> subject, duration |-> duration, timeUnit |-> timeUnit,
     date |-> date, notes |-> <<>>]

FormInputs ==
    { Field(<<" ", "M", "a", " ">>, <<"3", "0">>, "minutes", DateA),
      Field(<<"m", "a", "t">>, <<>>, "hours", DateB),
      Field(<<" ", " ">>, <<"3", "0">>, "minutes", DateA),
      Field(<<"M", "a">>, <<"0">>, "minutes", DateA),
      Field(<<"M", "a">>, <<"-", "5">>, "hours", DateB) }

\* form inputs with a second valid session, in hours, whose subject is the name of a
\* method that every object inherits
SummaryInputs ==
    { Field(<<" ", "M", "a", " ">>, <<"3", "0">>, "minutes", DateA),
      Field(<<"c", "o", "n", "s", "t", "r", "u", "c", "t", "o", "r">>, <<"2">>, "hours",
            DateB),
      Field(<<" ", " ">>, <<"3", "0">>, "minutes", DateA) }

\* the values the #filterDate input can take
FilterDates == {"", DateA, DateB}

(***************************************************************************)
(* Local storage methods.                                                  *)
(***************************************************************************)
\* saveToLocalStorage called before the handler has changed this.studyLogs
saveBeforeMutation(logs, slot, ok) ==
    IF ok
    THEN [slot |-> Stringify(studyLogs), setItem |-> "ok", thrown |-> "none"]
    ELSE [slot |-> slot, setItem |-> "threw", thrown |-> "none"]

\* saveToLocalStorage without its try and catch
saveWithoutCatch(logs, slot, ok) ==
    IF ok
    THEN [slot |-> Stringify(logs), setItem |-> "ok", thrown |-> "none"]
    ELSE [slot |-> slot, setItem |-> "threw", thrown |-> "QuotaExceededError"]

\* saveToLocalStorage: setItem either replaces the slot or throws and leaves it;
\* the catch block logs the error and returns normally
saveToLocalStorage(logs, slot, ok) ==
    IF ok
    THEN [slot |-> Stringify(logs), setItem |-> "ok", thrown |-> "none"]
    ELSE [slot |-> slot, setItem |-> "threw", thrown |-> "none"]

\* loadFromLocalStorage with the branches of its conditional exchanged:
\* data ? [] : JSON.parse(data), where JSON.parse of no text at all is null
loadWithBranchesExchanged(slot) ==
    IF slot.kind \in {"absent", "empty"} THEN JsNullValue ELSE JsArray(<<>>)

\* loadFromLocalStorage: data ? JSON.parse(data) : [], and [] when JSON.parse throws
loadFromLocalStorage(slot) ==
    CASE slot.kind = "absent" -> JsArray(<<>>)
      [] slot.kind = "empty" -> JsArray(<<>>)
      [] slot.kind = "garbage" -> JsArray(<<>>)
      [] OTHER -> Parse(slot.doc)

\* [...value]: only an iterable can be spread
IsIterable(value) == value.js = "array"
Spread(value) == JsArray(value.v)

\* the outcomes setItem may have: it may throw while the failure budget lasts
WriteOutcomes == IF failuresLeft > 0 THEN {TRUE, FALSE} ELSE {TRUE}

CountFailure(ok) == IF ok THEN failuresLeft ELSE failuresLeft - 1

(***************************************************************************)
(* Startup: the DOMContentLoaded handler runs new StudyTracker() on a      *)
(* fresh page, at first load and at every reload.                          *)
(***************************************************************************)
Constructor ==
    LET loaded == loadFromLocalStorage(storage)
    IN  /\ studyLogs' = loaded
        /\ IF IsIterable(loaded)
           THEN /\ filteredLogs' = Spread(loaded)
                /\ pc' = "ready"
                /\ uncaught' = "none"
           ELSE /\ filteredLogs' = JsUndefined
                /\ pc' = "crashed"
                /\ uncaught' = "TypeError"
        /\ currentAction' = "undefined"
        /\ filterSubject' = <<>>
        /\ filterDate' = ""
        /\ modalShown' = FALSE
        /\ notification' = "none"
        /\ setItemResult' = "none"
        /\ lastRemoved' = 0
        /\ UNCHANGED <<storage, now, failuresLeft>>

(***************************************************************************)
(* handleFormSubmit.                                                       *)
(***************************************************************************)
\* what Date.now() may return: no time or one millisecond has passed since the last
\* reading
ClockReadings == {t \in {now, now + 1} : t <= MaxClock}

\* the studySession object built from the form data at the instant t
NewSession(f, t) ==
    [id |-> NumberToString(t),
     subject |-> Trim(f.subject),
     duration |-> ParseInt(f.duration),
     timeUnit |-> f.timeUnit,
     date |-> f.date,
     notes |-> Trim(f.notes),
     timestamp |-> ToISOString(t)]

\* duration <= 0: a comparison with NaN is false
LessOrEqualZero(d) == d.type = "number" /\ d.val <= 0

\* the validation with < in place of <=
ValidationWithLessThan(session) ==
    IsFalsyText(session.subject)
    \/ (session.duration.type = "number" /\ session.duration.val < 0)

\* !studySession.subject || studySession.duration <= 0
ValidationFails(session) ==
    IsFalsyText(session.subject) \/ LessOrEqualZero(session.duration)

\* push in place of unshift
Push(logs, session) == JsArray(logs.v \o <<session>>)

\* this.studyLogs.unshift(studySession)
Unshift(logs, session) == JsArray(<<session>> \o logs.v)

\* what a handler does after it has changed this.studyLogs: saveToLocalStorage, then
\* updateSummary, renderLogs, updateFilters (which rebuilds the options of
\* #filterSubject, so that its first option, "", is selected), renderCharts and
\* showNotification; filteredLogs is not assigned
SaveAndRefresh(logs, message) ==
    \E ok \in WriteOutcomes :
        LET saved == saveToLocalStorage(logs, storage, ok)
        IN  /\ storage' = saved.slot
            /\ setItemResult' = saved.setItem
            /\ failuresLeft' = CountFailure(ok)
            /\ uncaught' = saved.thrown
            /\ IF saved.thrown = "none"
               THEN /\ filterSubject' = <<>>
                    /\ notification' = message
               ELSE UNCHANGED <<filterSubject, notification>>

\* t is the clock when the handler runs: the time of the previous event or later
handleFormSubmit(f, t) ==
    /\ pc = "ready"
    /\ t \in ClockReadings
    /\ now' = t
    /\ lastRemoved' = 0
    /\ LET studySession == NewSession(f, t)
       IN  IF ValidationFails(studySession)
           THEN /\ notification' = "Please fill in all required fields correctly."
                /\ uncaught' = "none"
                /\ UNCHANGED <<pc, studyLogs, filteredLogs, currentAction, filterSubject,
                               filterDate, modalShown, storage, setItemResult,
                               failuresLeft>>
           ELSE /\ studyLogs' = Unshift(studyLogs, studySession)
                /\ SaveAndRefresh(studyLogs', "Study session added successfully!")
                /\ UNCHANGED <<pc, filteredLogs, currentAction, filterDate, modalShown>>

(***************************************************************************)
(* deleteLog: the click listener renderLogs attaches to the delete button  *)
(* of each card of filteredLogs.                                           *)
(***************************************************************************)
\* the positions of the sessions of logs that have the id
PositionsOf(logs, id) == {i \in 1..Len(logs.v) : logs.v[i].id = id}

\* the idiom splice(findIndex(...), 1) in place of filter: with no match the index is
\* -1 and splice removes the last session
WithoutIdBySplice(logs, id) ==
    LET at == IF PositionsOf(logs, id) = {}
              THEN Len(logs.v)
              ELSE CHOOSE i \in PositionsOf(logs, id) : \A j \in PositionsOf(logs, id) : i <= j
    IN  JsArray([i \in 1..(Len(logs.v) - (IF Len(logs.v) > 0 THEN 1 ELSE 0)) |->
                   IF i < at THEN logs.v[i] ELSE logs.v[i + 1]])

\* this.studyLogs.filter(log => log.id !== id)
WithoutId(logs, id) == JsArray(SelectSeq(logs.v, LAMBDA log : log.id # id))

\* the ids that have a delete button
RenderedIds == {filteredLogs.v[i].id : i \in 1..Len(filteredLogs.v)}

deleteLog(id) ==
    /\ pc = "ready"
    /\ id \in RenderedIds
    /\ studyLogs' = WithoutId(studyLogs, id)
    /\ lastRemoved' = Len(studyLogs.v) - Len(studyLogs'.v)
    /\ SaveAndRefresh(studyLogs', "Study session deleted successfully!")
    /\ UNCHANGED <<pc, filteredLogs, currentAction, filterDate, modalShown, now>>

(***************************************************************************)
(* Filters.                                                                *)
(***************************************************************************)
LowerCase ==
    [c \in {"M", "A", "T"} |-> CASE c = "M" -> "m" [] c = "A" -> "a" [] OTHER -> "t"]

\* toLowerCase left out: the text as it is
KeepCase(s) == s

\* String.prototype.toLowerCase
ToLowerCase(s) ==
    [i \in 1..Len(s) |-> IF s[i] \in DOMAIN LowerCase THEN LowerCase[s[i]] ELSE s[i]]

\* String.prototype.includes
Includes(s, part) ==
    \E i \in 0..(Len(s) - Len(part)) : SubSeq(s, i + 1, i + Len(part)) = part

\* the predicate of applyFilters
FilterMatch(log, subjectFilter, dateFilter) ==
    LET subjectMatch == IsFalsyText(subjectFilter)
                        \/ Includes(ToLowerCase(log.subject), ToLowerCase(subjectFilter))
        dateMatch == dateFilter = "" \/ log.date = dateFilter
    IN  subjectMatch /\ dateMatch

\* this.studyLogs.filter(...) of applyFilters
Filtered(logs, subjectFilter, dateFilter) ==
    JsArray(SelectSeq(logs.v, LAMBDA log : FilterMatch(log, subjectFilter, dateFilter)))

\* the option values of #filterSubject that updateFilters builds
SubjectOptions == {<<>>} \cup {studyLogs.v[i].subject : i \in 1..Len(studyLogs.v)}

\* applyFilters with the result assigned to this.studyLogs as well
applyFiltersInPlace(subjectValue, dateValue) ==
    /\ pc = "ready"
    /\ subjectValue \in SubjectOptions
    /\ dateValue \in FilterDates
    /\ (subjectValue = filterSubject) # (dateValue = filterDate)
    /\ filterSubject' = subjectValue
    /\ filterDate' = dateValue
    /\ filteredLogs' = Filtered(studyLogs, subjectValue, dateValue)
    /\ studyLogs' = filteredLogs'
    /\ uncaught' = "none"
    /\ UNCHANGED <<pc, currentAction, modalShown, notification, storage,
                   setItemResult, now, failuresLeft, lastRemoved>>

\* a change event of #filterSubject or #filterDate: the control has a new value, and
\* applyFilters runs
applyFilters(subjectValue, dateValue) ==
    /\ pc = "ready"
    /\ subjectValue \in SubjectOptions
    /\ dateValue \in FilterDates
    /\ (subjectValue = filterSubject) # (dateValue = filterDate)
    /\ filterSubject' = subjectValue
    /\ filterDate' = dateValue
    /\ filteredLogs' = Filtered(studyLogs, subjectValue, dateValue)
    /\ uncaught' = "none"
    /\ UNCHANGED <<pc, studyLogs, currentAction, modalShown, notification, storage,
                   setItemResult, now, failuresLeft, lastRemoved>>

clearFilters ==
    /\ pc = "ready"
    /\ filterSubject' = <<>>
    /\ filterDate' = ""
    /\ filteredLogs' = Spread(studyLogs)
    /\ uncaught' = "none"
    /\ UNCHANGED <<pc, studyLogs, currentAction, modalShown, notification, storage,
                   setItemResult, now, failuresLeft, lastRemoved>>

(***************************************************************************)
(* Export.                                                                 *)
(***************************************************************************)
\* exportToCSV: with no session it only shows a notification; otherwise it builds the
\* CSV text from the collection, hands it to the browser as a download and shows a
\* notification; it assigns no field of the tracker and does not touch localStorage
exportToCSV ==
    /\ pc = "ready"
    /\ notification' = IF Len(studyLogs.v) = 0
                       THEN "No data to export."
                       ELSE "Data exported successfully!"
    /\ lastRemoved' = 0
    /\ uncaught' = "none"
    /\ UNCHANGED <<pc, studyLogs, filteredLogs, currentAction, filterSubject, filterDate,
                   modalShown, storage, setItemResult, now, failuresLeft>>

(***************************************************************************)
(* The clear-all confirmation.                                             *)
(***************************************************************************)
showClearAllConfirmation ==
    /\ pc = "ready"
    /\ modalShown' = TRUE
    /\ currentAction' = "clearAll"
    /\ uncaught' = "none"
    /\ UNCHANGED <<pc, studyLogs, filteredLogs, filterSubject, filterDate, notification,
                   storage, setItemResult, now, failuresLeft, lastRemoved>>

\* handleModalConfirm without the assignment this.studyLogs = []
handleModalConfirmWithoutClearing ==
    /\ pc = "ready"
    /\ IF currentAction = "clearAll"
       THEN /\ studyLogs' = studyLogs
            /\ SaveAndRefresh(studyLogs', "All study sessions cleared!")
            /\ modalShown' = IF uncaught' = "none" THEN FALSE ELSE modalShown
            /\ lastRemoved' = 0
       ELSE /\ modalShown' = FALSE
            /\ uncaught' = "none"
            /\ UNCHANGED <<studyLogs, filterSubject, notification, storage, setItemResult,
                           failuresLeft, lastRemoved>>
    /\ UNCHANGED <<pc, filteredLogs, currentAction, filterDate, now>>

\* the click listener of #confirmYes
handleModalConfirm ==
    /\ pc = "ready"
    /\ IF currentAction = "clearAll"
       THEN /\ studyLogs' = JsArray(<<>>)
            /\ SaveAndRefresh(studyLogs', "All study sessions cleared!")
            /\ modalShown' = IF uncaught' = "none" THEN FALSE ELSE modalShown
            /\ lastRemoved' = 0
       ELSE /\ modalShown' = FALSE
            /\ uncaught' = "none"
            /\ UNCHANGED <<studyLogs, filterSubject, notification, storage, setItemResult,
                           failuresLeft, lastRemoved>>
    /\ UNCHANGED <<pc, filteredLogs, currentAction, filterDate, now>>

\* the click listeners of #confirmNo and of the modal's backdrop
hideModal ==
    /\ pc = "ready"
    /\ modalShown' = FALSE
    /\ uncaught' = "none"
    /\ UNCHANGED <<pc, studyLogs, filteredLogs, currentAction, filterSubject, filterDate,
                   notification, storage, setItemResult, now, failuresLeft, lastRemoved>>

(***************************************************************************)
(* Dates and the wall clock. A calendar day is a day number: day 0 is      *)
(* Sunday 2023-12-31, so that a day is a Sunday when its number is a        *)
(* multiple of 7. An instant is a number of hours since 00:00 UTC of day 0. *)
(* new Date() is given by what the local wall clock shows, a day and an     *)
(* hour, and by the time zone of the browser.                               *)
(***************************************************************************)
\* the 'YYYY-MM-DD' text of each day, from day 0
DateTexts ==
    <<"2023-12-31", "2024-01-01", "2024-01-02", "2024-01-03", "2024-01-04",
      "2024-01-05", "2024-01-06", "2024-01-07", "2024-01-08", "2024-01-09",
      "2024-01-10", "2024-01-11", "2024-01-12", "2024-01-13", "2024-01-14",
      "2024-01-15", "2024-01-16", "2024-01-17", "2024-01-18">>

DateText(day) == DateTexts[day + 1]

\* the day that a 'YYYY-MM-DD' text names
DayOf(text) == (CHOOSE i \in DOMAIN DateTexts : DateTexts[i] = text) - 1

\* new Date('YYYY-MM-DD'): a date-only text is read as midnight UTC
ParseDate(text) == 24 * DayOf(text)

\* the hours the wall clock may show
Hours == {0, 1, 12, 23}

\* what the local wall clock may show when a handler runs
Walls == [day : 7..MaxDay, hour : Hours]

\* a time zone: local time is UTC plus `before` hours until 02:00 local time of
\* switchDay, and UTC plus `after` hours from then on
Zone(before, after, switchDay) ==
    [before |-> before, after |-> after, switchDay |-> switchDay]

\* the zones with one offset all year
FixedZones == {Zone(o, o, 0) : o \in {-5, 0, 2}}

\* zones whose clocks go forward or back by one hour on day 10
DstZones == {Zone(1, 2, 10), Zone(2, 1, 10)}

Zones == FixedZones \cup DstZones

\* the offset in force when the local wall clock shows wall
OffsetAt(wall, zone) ==
    IF wall.day < zone.switchDay \/ (wall.day = zone.switchDay /\ wall.hour < 2)
    THEN zone.before
    ELSE zone.after

\* the instant at which the local wall clock shows wall
Instant(wall, zone) == 24 * wall.day + wall.hour - OffsetAt(wall, zone)

\* date.toISOString().split('T')[0]: the UTC calendar date of the instant
IsoDate(wall, zone) == DateText(Instant(wall, zone) \div 24)

\* date.getDay(): the local day of the week, 0 for Sunday
GetDay(wall) == wall.day % 7

\* date.setDate(date.getDate() - n): the local day changes, the local time of day stays
SetDateBack(wall, n) == [wall EXCEPT !.day = wall.day - n]

\* date.setHours(0, 0, 0, 0): local midnight of the same local day
SetHoursZero(wall) == [wall EXCEPT !.hour = 0]

(***************************************************************************)
(* Summary statistics.                                                     *)
(***************************************************************************)
\* ToNumber of the value of a duration property: null is 0
ToNumber(x) == IF x.type = "null" THEN Number(0) ELSE x

\* x * y
JsTimes(x, y) ==
    IF ToNumber(x).type = "number" /\ ToNumber(y).type = "number"
    THEN Number(ToNumber(x).val * ToNumber(y).val)
    ELSE NaN

\* x + y, for operands that are numbers, NaN or null
JsPlus(x, y) ==
    IF ToNumber(x).type = "number" /\ ToNumber(y).type = "number"
    THEN Number(ToNumber(x).val + ToNumber(y).val)
    ELSE NaN

\* the conversion left out: the duration is taken as minutes whatever the unit
MinutesWithoutConversion(log) == log.duration

\* log.timeUnit === 'hours' ? log.duration * 60 : log.duration
Minutes(log) ==
    IF log.timeUnit = "hours" THEN JsTimes(log.duration, Number(60)) ELSE log.duration

\* logs.reduce((total, log) => total + minutes, total)
RECURSIVE Reduce(_, _)
Reduce(logs, total) ==
    IF logs = <<>> THEN total
    ELSE Reduce(Tail(logs), JsPlus(total, Minutes(Head(logs))))

\* calculateTotalMinutes(logs), for an array with the elements logs
calculateTotalMinutes(logs) == Reduce(logs, Number(0))

\* getWeekLogs: the sessions whose date, read as midnight UTC, is not before local
\* midnight of the last Sunday
getWeekLogs(logs, wall, zone) ==
    LET startOfWeek == SetHoursZero(SetDateBack(wall, GetDay(wall)))
    IN  SelectSeq(logs, LAMBDA log : ParseDate(log.date) >= Instant(startOfWeek, zone))

\* the todayLogs of updateSummary
TodayLogs(logs, wall, zone) ==
    SelectSeq(logs, LAMBDA log : log.date = IsoDate(wall, zone))

\* the todayTotal and weekTotal of updateSummary, before they are formatted
todayTotal(logs, wall, zone) == calculateTotalMinutes(TodayLogs(logs, wall, zone))

weekTotal(logs, wall, zone) == calculateTotalMinutes(getWeekLogs(logs, wall, zone))

\* `${x}` for a number that is not negative, or NaN
TemplateText(x) == IF x.type = "number" THEN NumberToString(x.val) ELSE <<"N", "a", "N">>

\* minutes <= 60 in place of minutes < 60
AtMostSixty(minutes) == minutes.type = "number" /\ minutes.val <= 60

\* minutes < 60: a comparison with NaN is false
LessThanSixty(minutes) == minutes.type = "number" /\ minutes.val < 60

\* Math.floor(minutes / 60)
FloorOfSixtieth(minutes) ==
    IF minutes.type = "number" THEN Number(minutes.val \div 60) ELSE NaN

\* minutes % 60, for minutes that are not negative
RemainderBySixty(minutes) ==
    IF minutes.type = "number" THEN Number(minutes.val % 60) ELSE NaN

\* formatDuration(minutes)
formatDuration(minutes) ==
    IF LessThanSixty(minutes)
    THEN TemplateText(minutes) \o <<" ", "m", "i", "n">>
    ELSE LET hours == FloorOfSixtieth(minutes)
             remainingMinutes == RemainderBySixty(minutes)
         IN  IF remainingMinutes.type = "number" /\ remainingMinutes.val > 0
             THEN TemplateText(hours) \o <<"h", " ">> \o TemplateText(remainingMinutes)
                      \o <<"m">>
             ELSE TemplateText(hours) \o <<"h">>

\* what updateSummary writes to #todayTotal, #weekTotal and #totalSessions
updateSummary(logs, wall, zone) ==
    [todayTotal |-> formatDuration(todayTotal(logs, wall, zone)),
     weekTotal |-> formatDuration(weekTotal(logs, wall, zone)),
     totalSessions |-> Len(logs)]

(***************************************************************************)
(* The data of the charts.                                                 *)
(***************************************************************************)
\* the dates of renderDailyChart: today's local day less 6, 5, ... 0 days, each
\* written as its UTC date
ChartDates(wall, zone) == [k \in 1..7 |-> IsoDate(SetDateBack(wall, 7 - k), zone)]

\* the dailyData of renderDailyChart
DailyData(logs, wall, zone) ==
    LET dates == ChartDates(wall, zone)
    IN  [k \in 1..7 |->
            calculateTotalMinutes(SelectSeq(logs, LAMBDA log : log.date = dates[k]))]

\* renderDailyChart: nothing is computed for an empty collection
renderDailyChart(logs, wall, zone) ==
    IF Len(logs) = 0
    THEN [drawn |-> FALSE, dates |-> <<>>, dailyData |-> <<>>]
    ELSE [drawn |-> TRUE, dates |-> ChartDates(wall, zone),
          dailyData |-> DailyData(logs, wall, zone)]

\* values that a property of subjectData can have besides a number and NaN: undefined,
\* a function or object inherited from Object.prototype, and the text that + gives
\* when an operand is not a number
JsUndefinedProperty == [type |-> "undefined", val |-> 0]
JsInherited == [type |-> "object", val |-> 0]
JsConcatenation == [type |-> "string", val |-> 0]

\* names that every object created by {} inherits from Object.prototype
InheritedNames ==
    { <<"c", "o", "n", "s", "t", "r", "u", "c", "t", "o", "r">>,
      <<"t", "o", "S", "t", "r", "i", "n", "g">>,
      <<"v", "a", "l", "u", "e", "O", "f">>,
      <<"_", "_", "p", "r", "o", "t", "o", "_", "_">> }

\* the object {}: no own property
EmptyObject == [keys |-> <<>>, values |-> <<>>]

\* the position of the own property key of the object, 0 if it has none
OwnPosition(object, key) ==
    IF \E k \in 1..Len(object.keys) : object.keys[k] = key
    THEN CHOOSE k \in 1..Len(object.keys) : object.keys[k] = key
    ELSE 0

\* object[key]: the own property, else what Object.prototype has, else undefined
GetProperty(object, key) ==
    IF OwnPosition(object, key) > 0 THEN object.values[OwnPosition(object, key)]
    ELSE IF key \in InheritedNames THEN JsInherited
    ELSE JsUndefinedProperty

\* object[key] = value: the own property is changed or added after the others; an
\* assignment to __proto__ of a value that is not an object does nothing
SetProperty(object, key, value) ==
    IF key = <<"_", "_", "p", "r", "o", "t", "o", "_", "_">> THEN object
    ELSE IF OwnPosition(object, key) > 0
    THEN [object EXCEPT !.values[OwnPosition(object, key)] = value]
    ELSE [keys |-> Append(object.keys, key), values |-> Append(object.values, value)]

\* (value || 0) + minutes: undefined, 0 and NaN give way to 0; with a function, an
\* object or a text on the left, + concatenates texts
OrZeroPlus(value, minutes) ==
    IF value.type \in {"object", "string"} THEN JsConcatenation
    ELSE IF value.type = "number" /\ value.val # 0 THEN JsPlus(value, minutes)
    ELSE JsPlus(Number(0), minutes)

\* the forEach of renderSubjectChart that fills subjectData
RECURSIVE GroupBySubject(_, _)
GroupBySubject(logs, subjectData) ==
    IF logs = <<>> THEN subjectData
    ELSE GroupBySubject(
             Tail(logs),
             SetProperty(subjectData, Head(logs).subject,
                         OrZeroPlus(GetProperty(subjectData, Head(logs).subject),
                                    Minutes(Head(logs)))))

\* renderSubjectChart: Object.keys and Object.values of subjectData; nothing is
\* computed for an empty collection
renderSubjectChart(logs) ==
    IF Len(logs) = 0
    THEN [drawn |-> FALSE, subjects |-> <<>>, values |-> <<>>]
    ELSE [drawn |-> TRUE,
          subjects |-> GroupBySubject(logs, EmptyObject).keys,
          values |-> GroupBySubject(logs, EmptyObject).values]

(***************************************************************************)
(* The slot before the first load.                                         *)
(***************************************************************************)
\* what the slot may hold when the page is first opened
InitialSlots ==
    {Absent, EmptyText, GarbageText, JsonText(JsonNull), JsonText(JsonNumber),
     JsonText(JsonObject), JsonText(JsonArray(<<>>))}

\* before the page is opened: no StudyTracker exists yet
Blank ==
    /\ pc = "boot"
    /\ studyLogs = JsUndefined
    /\ filteredLogs = JsUndefined
    /\ currentAction = "undefined"
    /\ filterSubject = <<>>
    /\ filterDate = ""
    /\ modalShown = FALSE
    /\ notification = "none"
    /\ storage \in InitialSlots
    /\ setItemResult = "none"
    /\ uncaught = "none"
    /\ now = 1
    /\ lastRemoved = 0

Init == Blank /\ failuresLeft = MaxWriteFailures

\* localStorage never fails
InitReliable == Blank /\ failuresLeft = 0

\* the model accepts an add only while the collection is shorter than maxLogs
AddAllowed(f, t, maxLogs) ==
    ValidationFails(NewSession(f, t)) \/ Len(studyLogs.v) < maxLogs

Events(inputs, maxLogs) ==
    \/ Constructor
    \/ \E f \in inputs, t \in ClockReadings :
           AddAllowed(f, t, maxLogs) /\ handleFormSubmit(f, t)
    \/ \E id \in RenderedIds : deleteLog(id)
    \/ \E subjectValue \in SubjectOptions, dateValue \in FilterDates :
           applyFilters(subjectValue, dateValue)
    \/ clearFilters
    \/ exportToCSV
    \/ showClearAllConfirmation
    \/ handleModalConfirm
    \/ hideModal

Next == Events(FormInputs, MaxLogs)

NextReliable == Events(FormInputs, MaxLogsReliable)

NextSummary == Events(SummaryInputs, MaxLogsReliable)

Spec == Init /\ [][Next]_vars

SpecReliable == InitReliable /\ [][NextReliable]_vars

\* localStorage never fails, and the form inputs are SummaryInputs
SpecSummary == InitReliable /\ [][NextSummary]_vars

(***************************************************************************)
(* Properties.                                                             *)
(***************************************************************************)
Indices(logs) == 1..Len(logs.v)

SessionIsValid(session) ==
    /\ session.duration.type = "number"
    /\ session.duration.val > 0
    /\ Trim(session.subject) # <<>>

\* a collection of sessions that all satisfy the data model's invariants
ValidCollection(logs) ==
    logs.js = "array" /\ \A i \in Indices(logs) : SessionIsValid(logs.v[i])

\* C1: the ids of the sessions of the collection are pairwise distinct, whatever the
\* clock did between the adds
C1_IdsPairwiseDistinct ==
    pc = "ready" =>
        \A i, j \in Indices(studyLogs) : i # j => studyLogs.v[i].id # studyLogs.v[j].id

\* C2: the filtered view is the filter applied to the collection under the selected
\* subject and date
C2_FilteredViewIsCurrent ==
    pc = "ready" => filteredLogs = Filtered(studyLogs, filterSubject, filterDate)

\* C3: every session of the collection has a duration greater than 0 and a subject
\* that is not empty after trimming
C3_SessionsAreValid ==
    pc = "ready" => ValidCollection(studyLogs)

AddedMessage == "Study session added successfully!"
DeletedMessage == "Study session deleted successfully!"
ClearedMessage == "All study sessions cleared!"
RejectedMessage == "Please fill in all required fields correctly."

IdsOf(logs) == {logs.v[i].id : i \in Indices(logs)}

\* the form input has a subject that is empty after trimming, or a duration that
\* is a number less than or equal to 0
RejectedInput(f) ==
    \/ Trim(f.subject) = <<>>
    \/ (ParseInt(f.duration).type = "number" /\ ParseInt(f.duration).val <= 0)

\* C4: an add whose subject is empty after trimming, or whose duration is less than
\* or equal to 0, changes neither the collection, nor the filtered view, nor the slot
C4_RejectedAddChangesNothing ==
    [][\A f \in FormInputs, t \in ClockReadings :
          (RejectedInput(f) /\ handleFormSubmit(f, t))
              => UNCHANGED <<studyLogs, filteredLogs, storage>>]_vars

\* a rejected add has happened on a collection that is not empty
C4_Witness ==
    /\ pc = "ready"
    /\ notification = RejectedMessage
    /\ Len(studyLogs.v) > 0
    /\ storage = Stringify(studyLogs)

\* the step wrote the slot, or tried to and failed
WriteAttempted ==
    \/ storage' = Stringify(studyLogs')
    \/ (failuresLeft' = failuresLeft - 1 /\ storage' = storage)

\* C5: once a write of the page has succeeded, and until its next write, the slot
\* holds the serialization of the collection; and a handler that changes the
\* collection attempts a write in the same event
C5_WriteThrough ==
    /\ []((pc = "ready" /\ setItemResult = "ok") => storage = Stringify(studyLogs))
    /\ [][(studyLogs' # studyLogs /\ ~Constructor) => WriteAttempted]_vars

\* a delete has completed with a successful write, and sessions are left
C5_Witness ==
    /\ pc = "ready"
    /\ setItemResult = "ok"
    /\ notification = DeletedMessage
    /\ lastRemoved > 0
    /\ Len(studyLogs.v) > 0

\* the collection after the step is the one the add, delete or clear-all produces
MutationKept ==
    \/ /\ notification' = AddedMessage
       /\ Len(studyLogs'.v) = Len(studyLogs.v) + 1
       /\ Tail(studyLogs'.v) = studyLogs.v
    \/ /\ notification' = DeletedMessage
       /\ \E id \in RenderedIds : studyLogs' = WithoutId(studyLogs, id)
    \/ /\ notification' = ClearedMessage
       /\ studyLogs' = JsArray(<<>>)

\* C6: when the write of an add, delete or clear-all fails, no error escapes the
\* handler, the collection keeps the change, the slot keeps its content; and the next
\* write that succeeds makes the slot the serialization of the collection
C6_FailedWriteIsTolerated ==
    /\ [][(failuresLeft' < failuresLeft)
             => /\ uncaught' = "none"
                /\ setItemResult' = "threw"
                /\ storage' = storage
                /\ MutationKept]_vars
    /\ [][(setItemResult = "threw" /\ setItemResult' = "ok")
             => storage' = Stringify(studyLogs')]_vars

\* a write has failed and left the slot behind the collection
C6_Witness ==
    /\ pc = "ready"
    /\ setItemResult = "threw"
    /\ uncaught = "none"
    /\ Len(studyLogs.v) > 0
    /\ storage # Stringify(studyLogs)

\* the slot holds a serialized array of sessions
IsSessionArray(slot) == slot.kind = "json" /\ slot.doc.j = "array"

\* C7: startup with the slot missing, or holding anything that is not a serialized
\* array of sessions, gives an empty collection and an empty filtered view, and
\* raises nothing
C7_StartupToleratesAnySlot ==
    [][(Constructor /\ ~IsSessionArray(storage))
          => /\ pc' = "ready"
             /\ uncaught' = "none"
             /\ studyLogs' = JsArray(<<>>)
             /\ filteredLogs' = JsArray(<<>>)]_vars

\* C8: saving a valid collection to the slot and loading the slot gives the same
\* collection back: the same sessions, in the same order, with the same fields
C8_RoundTrip ==
    (pc = "ready" /\ ValidCollection(studyLogs))
        => loadFromLocalStorage(saveToLocalStorage(studyLogs, storage, TRUE).slot)
               = studyLogs

\* a valid collection of three sessions, two of them with different ids
C8_Witness ==
    /\ pc = "ready"
    /\ ValidCollection(studyLogs)
    /\ Len(studyLogs.v) = 3
    /\ studyLogs.v[1].id # studyLogs.v[3].id

\* a is b with some of its elements removed, the others in the same order
RECURSIVE IsSubsequence(_, _)
IsSubsequence(a, b) ==
    IF a = <<>> THEN TRUE
    ELSE IF b = <<>> THEN FALSE
    ELSE \/ (Head(a) = Head(b) /\ IsSubsequence(Tail(a), Tail(b)))
         \/ IsSubsequence(a, Tail(b))

\* C9: an accepted add puts the new session first and leaves the others as they
\* were, in their order; a delete leaves the remaining sessions in their order
C9_NewestFirst ==
    /\ [][\A f \in FormInputs, t \in ClockReadings :
             (handleFormSubmit(f, t) /\ ~ValidationFails(NewSession(f, t)))
                 => /\ Head(studyLogs'.v) = NewSession(f, t)
                    /\ Tail(studyLogs'.v) = studyLogs.v]_vars
    /\ [][\A id \in RenderedIds :
             deleteLog(id) => IsSubsequence(studyLogs'.v, studyLogs.v)]_vars

\* a delete has left two different sessions
C9_Witness ==
    /\ pc = "ready"
    /\ notification = DeletedMessage
    /\ lastRemoved = 1
    /\ Len(studyLogs.v) = 2
    /\ studyLogs.v[1] # studyLogs.v[2]

\* C10, as claimed: deleting an id that no session has leaves the collection as it
\* was, a second such delete changes nothing more, and the slot then holds the
\* serialization of the collection
C10_DeleteAbsentSlotEqualsCollection ==
    [][\A id \in RenderedIds :
          (deleteLog(id) /\ id \notin IdsOf(studyLogs))
              => /\ studyLogs' = studyLogs
                 /\ WithoutId(studyLogs', id) = studyLogs'
                 /\ storage' = Stringify(studyLogs')]_vars

\* C10, amended: deleting an id that no session has leaves the collection as it was,
\* a second such delete changes nothing more, and the slot then holds the
\* serialization of the collection if the write of the delete succeeded, and its
\* previous content if it failed
C10_DeleteAbsent ==
    [][\A id \in RenderedIds :
          (deleteLog(id) /\ id \notin IdsOf(studyLogs))
              => /\ studyLogs' = studyLogs
                 /\ WithoutId(studyLogs', id) = studyLogs'
                 /\ (failuresLeft' = failuresLeft => storage' = Stringify(studyLogs'))
                 /\ (failuresLeft' < failuresLeft => storage' = storage)]_vars

\* a delete of an id that no session had has happened, on a collection that is not
\* empty
C10_Witness ==
    /\ pc = "ready"
    /\ notification = DeletedMessage
    /\ lastRemoved = 0
    /\ Len(studyLogs.v) > 0

\* the sequence without its element at position p
RemoveAt(seq, p) == [i \in 1..(Len(seq) - 1) |-> IF i < p THEN seq[i] ELSE seq[i + 1]]

\* C11: deleting an id that a session of the collection has removes that session and
\* no other: the collection is one shorter, and is the old one without one session of
\* that id
C11_DeletePresentRemovesOne ==
    [][\A id \in RenderedIds :
          (deleteLog(id) /\ id \in IdsOf(studyLogs))
              => /\ Len(studyLogs'.v) = Len(studyLogs.v) - 1
                 /\ \E p \in Indices(studyLogs) :
                       /\ studyLogs.v[p].id = id
                       /\ studyLogs'.v = RemoveAt(studyLogs.v, p)]_vars

\* the sessions dated on or after the last Sunday at or before the local day of wall
OnOrAfterLastSunday(logs, wall) ==
    SelectSeq(logs, LAMBDA log : DayOf(log.date) >= wall.day - (wall.day % 7))

\* C12: whatever the wall clock shows and whatever the offset of the time zone, the
\* week total is the total of exactly the sessions dated on or after the most recent
\* Sunday at or before today, that Sunday included
C12_WeekTotalFromSunday ==
    (pc = "ready" /\ ValidCollection(studyLogs)) =>
        \A wall \in Walls, zone \in FixedZones :
            weekTotal(studyLogs.v, wall, zone)
                = calculateTotalMinutes(OnOrAfterLastSunday(studyLogs.v, wall))

\* the sessions dated on the day
DatedOn(logs, day) == SelectSeq(logs, LAMBDA log : DayOf(log.date) = day)

\* the series of the chart is the one of the seven days that end on the day `last`
SeriesOfWeekEnding(chart, logs, last) ==
    /\ Len(chart.dates) = 7
    /\ Len(chart.dailyData) = 7
    /\ \A k \in 1..7 :
          /\ DayOf(chart.dates[k]) = last - (7 - k)
          /\ chart.dailyData[k] = calculateTotalMinutes(DatedOn(logs, last - (7 - k)))

\* C13: the daily series has 7 entries for 7 consecutive dates, oldest first, the last
\* of them the today of the today total; each entry is the total of the sessions of
\* that date; and the series is the same without a session dated outside the 7 days
C13_DailySeries ==
    (pc = "ready" /\ ValidCollection(studyLogs) /\ Len(studyLogs.v) > 0) =>
        \A wall \in Walls, zone \in Zones :
            LET chart == renderDailyChart(studyLogs.v, wall, zone)
                last == DayOf(IsoDate(wall, zone))
            IN  /\ SeriesOfWeekEnding(chart, studyLogs.v, last)
                /\ \A i \in Indices(studyLogs) :
                      (DayOf(studyLogs.v[i].date) \notin (last - 6)..last
                          /\ Len(studyLogs.v) > 1)
                          => renderDailyChart(RemoveAt(studyLogs.v, i), wall, zone) = chart

\* the two characters are the same letter, in the same or in different case
SameLetter(a, b) ==
    a = b \/ {a, b} \in {{"M", "m"}, {"A", "a"}, {"T", "t"}}

\* the text has a run of characters that spells part, case apart
ContainsIgnoringCase(text, part) ==
    \E start \in 0..(Len(text) - Len(part)) :
        \A k \in 1..Len(part) : SameLetter(text[start + k], part[k])

\* the session passes the subject filter and the date filter
Passes(log, subjectValue, dateValue) ==
    /\ (subjectValue = <<>> \/ ContainsIgnoringCase(log.subject, subjectValue))
    /\ (dateValue = "" \/ log.date = dateValue)

\* the passing sessions, in the order the collection has them
PassingInOrder(logs, subjectValue, dateValue) ==
    LET passing == {i \in 1..Len(logs) : Passes(logs[i], subjectValue, dateValue)}
        nth(k) == CHOOSE i \in passing : Cardinality({j \in passing : j < i}) = k - 1
    IN  [k \in 1..Cardinality(passing) |-> logs[nth(k)]]

\* C14: after a filter-change event the filtered view holds exactly the sessions of the
\* collection that pass both filters (the subject compared case-insensitively as a
\* substring, the date exactly; an empty filter passes everything), in the order of
\* the collection
C14_FilteredViewAfterChange ==
    [][\A subjectValue \in SubjectOptions, dateValue \in FilterDates :
          applyFilters(subjectValue, dateValue)
              => filteredLogs'
                     = JsArray(PassingInOrder(studyLogs'.v, subjectValue, dateValue))]_vars

\* the subject filter 'Ma' and a date filter are set, the view holds the one session
\* that passes both, whose subject is 'mat', and the collection holds two more
C14_Witness ==
    /\ pc = "ready"
    /\ filterSubject = <<"M", "a">>
    /\ filterDate = DateB
    /\ Len(studyLogs.v) = 3
    /\ Len(filteredLogs.v) = 1
    /\ filteredLogs.v[1].subject = <<"m", "a", "t">>
    /\ filteredLogs = Filtered(studyLogs, filterSubject, filterDate)

\* the minutes of a session whose duration is a number
MinutesOfSession(log) ==
    IF log.timeUnit = "hours" THEN log.duration.val * 60 ELSE log.duration.val

\* the sum of the minutes of the sessions at the positions of the set
RECURSIVE SumOver(_, _)
SumOver(logs, positions) ==
    IF positions = {} THEN 0
    ELSE LET i == CHOOSE i \in positions : TRUE
         IN  MinutesOfSession(logs[i]) + SumOver(logs, positions \ {i})

\* C15: calculateTotalMinutes is the sum, over the sessions, of duration * 60 for a
\* session in hours and of duration for a session in minutes; it is 0 for no session;
\* and the today total is that sum over the sessions dated today
C15_TotalMinutes ==
    (pc = "ready" /\ ValidCollection(studyLogs)) =>
        /\ calculateTotalMinutes(<<>>) = Number(0)
        /\ \A logs \in {studyLogs.v, filteredLogs.v} :
              calculateTotalMinutes(logs) = Number(SumOver(logs, 1..Len(logs)))
        /\ \A wall \in Walls, zone \in Zones :
              todayTotal(studyLogs.v, wall, zone)
                  = Number(SumOver(studyLogs.v,
                                   {i \in Indices(studyLogs) :
                                       studyLogs.v[i].date = IsoDate(wall, zone)}))

\* a collection of 30 minutes on one day and twice 2 hours on the next: 270 minutes,
\* 240 of them today when today is the second day
C15_Witness ==
    /\ pc = "ready"
    /\ ValidCollection(studyLogs)
    /\ Len(studyLogs.v) = 3
    /\ calculateTotalMinutes(studyLogs.v) = Number(270)
    /\ \E wall \in Walls, zone \in Zones :
          /\ IsoDate(wall, zone) = DateB
          /\ todayTotal(studyLogs.v, wall, zone) = Number(240)

\* the text is the decimal numeral of n, without leading zeros
IsDecimalOf(text, n) ==
    /\ text # <<>>
    /\ \A k \in 1..Len(text) : text[k] \in Digits
    /\ (Len(text) > 1 => text[1] # "0")
    /\ DigitsValue(text, 0) = n

\* the text is '<m> min', '<h>h' or '<h>h <r>m', as the number of minutes m requires
IsDurationText(text, m) ==
    LET n == Len(text)
    IN  IF m < 60
        THEN /\ n > 4
             /\ SubSeq(text, n - 3, n) = <<" ", "m", "i", "n">>
             /\ IsDecimalOf(SubSeq(text, 1, n - 4), m)
        ELSE IF m % 60 = 0
        THEN /\ n > 1
             /\ text[n] = "h"
             /\ IsDecimalOf(SubSeq(text, 1, n - 1), m \div 60)
        ELSE /\ n > 4
             /\ text[n] = "m"
             /\ \E k \in 2..(n - 3) :
                   /\ text[k] = "h"
                   /\ text[k + 1] = " "
                   /\ IsDecimalOf(SubSeq(text, 1, k - 1), m \div 60)
                   /\ IsDecimalOf(SubSeq(text, k + 2, n - 1), m % 60)

\* C16: for every number of minutes m that is not negative, formatDuration gives
\* '<m> min' below 60, '<h>h' for a multiple of 60 and '<h>h <r>m' otherwise, with
\* h = m div 60 and r = m mod 60: '0 min', '59 min', '1h', '1h 30m' for 0, 59, 60, 90;
\* and so for the total of the collection
C16_FormatDuration ==
    pc = "ready" =>
        /\ \A m \in 0..MaxMinutes : IsDurationText(formatDuration(Number(m)), m)
        /\ formatDuration(Number(0)) = <<"0", " ", "m", "i", "n">>
        /\ formatDuration(Number(59)) = <<"5", "9", " ", "m", "i", "n">>
        /\ formatDuration(Number(60)) = <<"1", "h">>
        /\ formatDuration(Number(90)) = <<"1", "h", " ", "3", "0", "m">>
        /\ ValidCollection(studyLogs) =>
              IsDurationText(formatDuration(calculateTotalMinutes(studyLogs.v)),
                             calculateTotalMinutes(studyLogs.v).val)

\* the summary shows '1h 30m' as today's total, for three sessions of 30 minutes
C16_Witness ==
    /\ pc = "ready"
    /\ ValidCollection(studyLogs)
    /\ Len(studyLogs.v) = 3
    /\ \E wall \in Walls, zone \in Zones :
          /\ todayTotal(studyLogs.v, wall, zone) = Number(90)
          /\ updateSummary(studyLogs.v, wall, zone).todayTotal
                 = <<"1", "h", " ", "3", "0", "m">>

\* the sum of the entries of the per-subject totals
RECURSIVE SumOfEntries(_)
SumOfEntries(values) ==
    IF values = <<>> THEN Number(0) ELSE JsPlus(Head(values), SumOfEntries(Tail(values)))

\* C17: for a valid collection, whatever the subjects are, the per-subject totals have
\* one entry for each subject of the collection, the entry of a subject is the sum of
\* the minutes of the sessions of that subject, and the entries add up to the total
\* of the collection
C17_PerSubjectTotals ==
    (pc = "ready" /\ ValidCollection(studyLogs) /\ Len(studyLogs.v) > 0) =>
        LET chart == renderSubjectChart(studyLogs.v)
            entries == 1..Len(chart.subjects)
        IN  /\ {chart.subjects[k] : k \in entries}
                   = {studyLogs.v[i].subject : i \in Indices(studyLogs)}
            /\ \A k, l \in entries : chart.subjects[k] = chart.subjects[l] => k = l
            /\ \A k \in entries :
                  chart.values[k]
                      = Number(SumOver(studyLogs.v,
                                       {i \in Indices(studyLogs) :
                                           studyLogs.v[i].subject = chart.subjects[k]}))
            /\ SumOfEntries(chart.values) = calculateTotalMinutes(studyLogs.v)

\* C18: the confirmation of a clear-all request empties the collection, however many
\* sessions it had, and if the write succeeds the slot holds the empty collection
C18_ConfirmedClearAllEmpties ==
    [][(handleModalConfirm /\ modalShown /\ currentAction = "clearAll")
          => /\ studyLogs' = JsArray(<<>>)
             /\ (failuresLeft' = failuresLeft
                    => storage' = JsonText(JsonArray(<<>>)))]_vars

\* a clear-all has been confirmed and written; the filtered view, which the handler
\* leaves alone, shows that the collection had two sessions
C18_Witness ==
    /\ pc = "ready"
    /\ notification = ClearedMessage
    /\ ~modalShown
    /\ setItemResult = "ok"
    /\ studyLogs = JsArray(<<>>)
    /\ storage = JsonText(JsonArray(<<>>))
    /\ Len(filteredLogs.v) = 2

\* C19: a confirm event empties the collection only while a clear-all confirmation is
\* pending (requested, and since then neither confirmed nor cancelled); otherwise it
\* leaves the collection and the slot as they are
C19_ConfirmOnlyWhilePending ==
    [][(handleModalConfirm /\ ~modalShown) => UNCHANGED <<studyLogs, storage>>]_vars

\* C20: whatever the wall clock shows and whatever the offset of the time zone, the
\* today total of updateSummary is not greater than its week total: every session
\* counted for today is counted for the week
C20_TodayWithinWeek ==
    (pc = "ready" /\ ValidCollection(studyLogs)) =>
        \A wall \in Walls, zone \in FixedZones :
            /\ todayTotal(studyLogs.v, wall, zone).val <= weekTotal(studyLogs.v, wall, zone).val
            /\ IsSubsequence(TodayLogs(studyLogs.v, wall, zone),
                             getWeekLogs(studyLogs.v, wall, zone))

ExportedMessage == "Data exported successfully!"

\* the step is a filter change, a clear-filters, an export, a clear-all request or a
\* cancel of the modal
ReadOnlyEvent ==
    \/ \E subjectValue \in SubjectOptions, dateValue \in FilterDates :
           applyFilters(subjectValue, dateValue)
    \/ clearFilters
    \/ exportToCSV
    \/ showClearAllConfirmation
    \/ hideModal

\* the step is an add, a delete or the confirmation of a clear-all
MutatingEvent ==
    \/ \E f \in FormInputs \cup SummaryInputs, t \in ClockReadings : handleFormSubmit(f, t)
    \/ \E id \in RenderedIds : deleteLog(id)
    \/ (handleModalConfirm /\ currentAction = "clearAll")

\* C21: filter change, clear-filters, export, clear-all request and modal cancel leave
\* the collection and the slot as they are; after startup only an add, a delete or a
\* confirmed clear-all changes either of them
C21_OnlyMutatorsChangeTheStore ==
    /\ [][ReadOnlyEvent => UNCHANGED <<studyLogs, storage>>]_vars
    /\ [][(<<studyLogs, storage>>' # <<studyLogs, storage>> /\ ~Constructor)
             => MutatingEvent]_vars

\* an export has run on a collection of two sessions that the slot holds, with a
\* filter set and the modal open
C21_Witness ==
    /\ pc = "ready"
    /\ notification = ExportedMessage
    /\ Len(studyLogs.v) = 2
    /\ storage = Stringify(studyLogs)
    /\ filterDate # ""
    /\ modalShown

====
